---- MODULE Spec2Model ----
(***************************************************************************)
(* A model of surrealwaffle/predicting-random: the cyclic fixed queue, the *)
(* glibc TYPE_3 reference generator, the GF(2) semi-canonical matrix and   *)
(* the solver that reconstructs the generator from its outputs.            *)
(*                                                                         *)
(* Representation.  TLC's integers are 32-bit signed, so a std::uint32_t   *)
(* that is used as a number is the pair <<hi, lo>> of its two 16-bit       *)
(* halves (value = hi * 2^16 + lo), with the arithmetic done half by half  *)
(* and reduced modulo 2^32.  A std::uint32_t that is used as a vector over *)
(* GF(2) (a parity coefficient vector, a matrix row) is the set of the     *)
(* positions of its set bits, a subset of 0..31.                           *)
(*                                                                         *)
(* A cyclic_fixed_queue<T, Capacity> is the record                         *)
(*   [cap, storage, front_, size_]                                         *)
(* with storage a function on 0 .. cap (Capacity + 1 slots).  A pointer    *)
(* into storage_ is the index of the slot, cap + 1 being one past the end. *)
(***************************************************************************)
EXTENDS Integers, Sequences, FiniteSets

VARIABLES
  q,        \* SpecQueue, SpecEq: a cyclic_fixed_queue
  r,        \* SpecEq: a second queue of the same capacity
  iter,     \* SpecQueue: an iterator walking over q
  cmp,      \* what operator== did when last called
  op,       \* the operation performed last
  gen,      \* the source reference_generator
  gen2,     \* SpecGen: a generator equal to gen; SpecSolve: the reconstructed one
  out,      \* the values the last operation returned
  harness,  \* SpecCompare: seed, count, i and reference_buffer of main()
  status,   \* SpecCompare, SpecSolve: where the driver is
  slv,      \* SpecSolve: the solver
  steps     \* SpecGen, SpecSolve: the number of values drawn from gen

queueVars == <<q, r, iter>>
genVars == <<gen, gen2, out, harness, status, slv, steps>>
vars == <<queueVars, cmp, op, genVars>>

\* What the variables of the generator hold in SpecQueue and SpecEq, and what
\* those of the queue hold elsewhere.
Unused == "unused"

\* ---------------------------------------------------------------- bounds
QCap == 3        \* Capacity of the queues of SpecQueue and SpecEq
MaxVal == 1      \* their elements are drawn from 0 .. MaxVal

Vals == 0 .. MaxVal

\* ------------------------------------------------- cyclic_fixed_queue<T, C>
\* std::ssize(storage_): Capacity + 1 slots, one of them the sentinel.
storage_ssize(c) == c.cap + 1

ssize(c) == c.size_
size(c) == c.size_
empty(c) == size(c) <= 0

\* SIZE_MAX modulo n, for a 64-bit std::size_t: (2^64 - 1) mod n.
RECURSIVE Pow2Mod(_, _)
Pow2Mod(e, n) == IF e = 0 THEN 1 % n ELSE (2 * Pow2Mod(e - 1, n)) % n

SizeMaxMod(n) == (Pow2Mod(64, n) + n - 1) % n

\* The index computed by the unsigned expression (front_ + ssize() + d) %
\* std::ssize(storage_), d >= -size_ - 1: front_ + ssize() is a std::size_t, so
\* a sum below zero wraps around SIZE_MAX before the remainder is taken.
wrap_index(c, d) ==
  LET s == c.front_ + c.size_ + d
  IN  IF s >= 0 THEN s % storage_ssize(c)
      ELSE (SizeMaxMod(storage_ssize(c)) + 1 + s + storage_ssize(c)) % storage_ssize(c)

\* front(): storage_[front_]; asserts !empty().
front_index(c) == c.front_
front(c) == c.storage[front_index(c)]

\* back(): storage_[(front_ + ssize() - 1) % std::ssize(storage_)]; asserts !empty().
back_index(c) == wrap_index(c, -1)
back(c) == c.storage[back_index(c)]

\* operator()(offset): relative indexing, from the back when offset < 0.
\* The asserts of the non-const overload: ssize() is a std::size_t, so
\* ssize() + offset >= 0 compares an unsigned number with 0 and always holds.
at_assert(c, offset) ==
  IF offset < 0 THEN TRUE ELSE ssize(c) >= offset

at_index(c, offset) ==
  IF offset < 0 THEN wrap_index(c, offset)
  ELSE (c.front_ + offset) % storage_ssize(c)

at(c, offset) == c.storage[at_index(c, offset)]

\* push(value): storage_[(front_ + size_++) % std::ssize(storage_)] = value.
push_assert(c) == size(c) < c.cap

push_ignores_front(c, value) ==
  [c EXCEPT !.storage[c.size_ % storage_ssize(c)] = value,
            !.size_ = @ + 1]

push(c, value) ==
  [c EXCEPT !.storage[(c.front_ + c.size_) % storage_ssize(c)] = value,
            !.size_ = @ + 1]

\* pop(): T is trivially destructible in every instantiation, so the slot is
\* left as it is; front_ wraps to 0 on reaching std::ssize(storage_).
pop_assert(c) == ~empty(c)

pop_never_wraps(c) ==
  [c EXCEPT !.front_ = c.front_ + 1,
            !.size_ = @ - 1]

pop(c) ==
  [c EXCEPT !.front_ = IF c.front_ + 1 = storage_ssize(c) THEN 0 ELSE c.front_ + 1,
            !.size_ = @ - 1]

\* pop_and_push(value): pop(); return push(value).
pop_and_push_only_pushes(c, value) == push(c, value)

pop_and_push(c, value) == push(pop(c), value)

\* The queue after cyclic_fixed_queue() = default and then the pushes, pops and
\* pop_and_pushes that fill it; storage_ is left uninitialized by the constructor.
EmptyQueue(capacity, slots) ==
  [cap |-> capacity, storage |-> slots, front_ |-> 0, size_ |-> 0]

\* The logical sequence q(0), ..., q(size - 1).
Contents(c) == [k \in 1 .. c.size_ |-> at(c, k - 1)]

\* ------------------------------------------------------ wrap_around_iterator
\* {it, last, reset}: it is an index into storage_, last == storage_ssize,
\* reset == 0.
wrap_around_iterator(i, c) == [it |-> i, last |-> storage_ssize(c), reset |-> 0]

\* begin(): {addressof(front()), last, reset}
begin(c) == wrap_around_iterator(front_index(c), c)

\* end(): {std::next(addressof(back())), last, reset}
end(c) == wrap_around_iterator(back_index(c) + 1, c)

\* operator++: if (++it == last) it = reset;
iter_inc(i) == [i EXCEPT !.it = IF i.it + 1 = i.last THEN i.reset ELSE i.it + 1]

\* operator--: if (it == reset) it = std::prev(last);  (nothing else is done)
iter_dec(i) == [i EXCEPT !.it = IF i.it = i.reset THEN i.last - 1 ELSE i.it]

\* ------------------------------------------------------------- SpecQueue
\* One queue of capacity QCap under precondition-respecting push, pop and
\* pop_and_push, and an iterator walking it forwards from begin() or backwards
\* from end().  Any push or pop invalidates the iterator.
NoIter == [kind |-> "none", i |-> [it |-> 0, last |-> QCap + 1, reset |-> 0], n |-> 0]

Slots(capacity) == [0 .. capacity -> Vals]

InitQueue ==
  /\ q \in {EmptyQueue(QCap, s) : s \in Slots(QCap)}
  /\ r = EmptyQueue(QCap, [k \in 0 .. QCap |-> 0])
  /\ iter = NoIter
  /\ cmp = "none"
  /\ op = "init"
  /\ gen = Unused /\ gen2 = Unused /\ out = Unused
  /\ harness = Unused /\ status = Unused
  /\ slv = Unused /\ steps = 0

Push(v) ==
  /\ push_assert(q)
  /\ q' = push(q, v)
  /\ iter' = NoIter
  /\ op' = "push"
  /\ UNCHANGED <<r, cmp, genVars>>

Pop ==
  /\ pop_assert(q)
  /\ q' = pop(q)
  /\ iter' = NoIter
  /\ op' = "pop"
  /\ UNCHANGED <<r, cmp, genVars>>

PopAndPush(v) ==
  /\ pop_assert(q)
  /\ q' = pop_and_push(q, v)
  /\ iter' = NoIter
  /\ op' = "pop_and_push"
  /\ UNCHANGED <<r, cmp, genVars>>

\* auto it = q.begin();
IterBegin ==
  /\ ~empty(q)
  /\ iter' = [kind |-> "fwd", i |-> begin(q), n |-> 0]
  /\ UNCHANGED <<q, r, cmp, op, genVars>>

\* ++it, while it != q.end(); n counts the increments, and the walk is cut
\* after one full turn of the ring past the size.
IterInc ==
  /\ iter.kind = "fwd"
  /\ iter.i.it # end(q).it
  /\ iter.n < q.size_ + storage_ssize(q)
  /\ iter' = [iter EXCEPT !.i = iter_inc(iter.i), !.n = @ + 1]
  /\ UNCHANGED <<q, r, cmp, op, genVars>>

\* auto it = q.end();
IterEnd ==
  /\ ~empty(q)
  /\ iter' = [kind |-> "rev", i |-> end(q), n |-> 0]
  /\ UNCHANGED <<q, r, cmp, op, genVars>>

\* --it, at most size times.
IterDec ==
  /\ iter.kind = "rev"
  /\ iter.n < q.size_
  /\ iter' = [iter EXCEPT !.i = iter_dec(iter.i), !.n = @ + 1]
  /\ UNCHANGED <<q, r, cmp, op, genVars>>

NextQueue ==
  \/ \E v \in Vals : Push(v)
  \/ Pop
  \/ \E v \in Vals : PopAndPush(v)
  \/ IterBegin
  \/ IterInc
  \/ IterEnd
  \/ IterDec

SpecQueue == InitQueue /\ [][NextQueue]_vars

\* C6: ring integrity.  Immediately after push(v), q(-1) is v and the elements
\* already in the queue keep their values and order; immediately after pop(),
\* q(0) is the former q(1) and the remaining elements keep their values and order.
C6_RingIntegrity ==
  [][ /\ \A v \in Vals :
           Push(v) => /\ at(q', -1) = v
                      /\ Contents(q') = Append(Contents(q), v)
      /\ Pop => /\ at(q', 0) = at(q, 1)
                /\ Contents(q') = Tail(Contents(q)) ]_vars

\* A push has just filled a queue whose front is the last physical slot, so the
\* pushed element lies past the wrap of the ring.
C6_Witness ==
  /\ op = "push"
  /\ q.front_ = QCap
  /\ q.size_ = QCap

\* C8: forward iteration.  An iterator incremented n times from begin() of a
\* non-empty queue is short of end() and refers to q(n) while n < size, and it
\* is end() when n = size.
C8_ForwardIteration ==
  iter.kind = "fwd" =>
    /\ iter.n <= q.size_
    /\ iter.n < q.size_ => /\ iter.i.it # end(q).it
                           /\ iter.i.it = at_index(q, iter.n)
    /\ iter.n = q.size_ => iter.i.it = end(q).it

\* C9: reverse iteration.  An iterator decremented n >= 1 times from end() of a
\* non-empty queue refers to q(size - n), and it is begin() when n = size.
C9_ReverseIteration ==
  (iter.kind = "rev" /\ iter.n >= 1) =>
    /\ iter.i.it = at_index(q, q.size_ - iter.n)
    /\ iter.n = q.size_ => iter.i.it = begin(q).it

\* C10: pop_and_push(v) on a non-empty queue [a1, ..., an] leaves [a2, ..., an, v],
\* keeps the size, is the state pop() then push(v) yields, and meets push's
\* precondition size < Capacity after its pop.
C10_PopAndPush ==
  [][ \A v \in Vals :
        PopAndPush(v) => /\ Contents(q') = Append(Tail(Contents(q)), v)
                         /\ q'.size_ = q.size_
                         /\ push_assert(pop(q))
                         /\ q' = push(pop(q), v) ]_vars

\* pop_and_push has just acted on a full queue.
C10_Witness ==
  /\ op = "pop_and_push"
  /\ q.size_ = QCap

\* C11: queue bounds.  In every reachable state 0 <= size <= Capacity and the
\* front index is one of the Capacity + 1 slots; logical element k, counted
\* from the front or from the back, lies in slot (front + k) mod (Capacity + 1),
\* the elements lie in distinct slots, and a full queue leaves exactly one slot
\* unused.
C11_QueueBounds ==
  LET occupied == {(q.front_ + k) % (q.cap + 1) : k \in 0 .. q.size_ - 1}
  IN  /\ 0 <= q.size_ /\ q.size_ <= q.cap
      /\ q.front_ \in 0 .. q.cap
      /\ \A k \in 0 .. q.size_ - 1 :
           /\ at_index(q, k) = (q.front_ + k) % (q.cap + 1)
           /\ at_index(q, k - q.size_) = (q.front_ + k) % (q.cap + 1)
      /\ Cardinality(occupied) = q.size_
      /\ q.size_ = q.cap => Cardinality((0 .. q.cap) \ occupied) = 1

\* A pop has just taken the element in the last physical slot of a full queue:
\* the front index has wrapped to 0.
C11_Witness ==
  /\ op = "pop"
  /\ q.front_ = 0
  /\ q.size_ = QCap - 1

\* ---------------------------------------------------------------- SpecEq
\* operator==(lhs, rhs): false when the sizes differ, otherwise
\* std::equal(lhs.begin(), lhs.end(), rhs.begin()).  The outcome is "true",
\* "false", "abort" (an assert fails: begin() and end() call front() and back(),
\* which assert !empty()) or "hang" (first1 never compares equal to last1).
\* first1 goes round the ring with period std::ssize(storage_), and first2 with
\* it, so a loop that has not ended after that many steps never ends.
RECURSIVE std_equal(_, _, _, _, _, _)
std_equal(first1, last1, first2, lhs, rhs, n) ==
  IF first1.it = last1.it THEN "true"
  ELSE IF n >= storage_ssize(lhs) THEN "hang"
  ELSE IF lhs.storage[first1.it] # rhs.storage[first2.it] THEN "false"
  ELSE std_equal(iter_inc(first1), last1, iter_inc(first2), lhs, rhs, n + 1)

\* ndebug: the build defines NDEBUG, so the asserts are compiled out.
queue_eq(lhs, rhs, ndebug) ==
  IF size(lhs) # size(rhs) THEN "false"
  ELSE IF ~ndebug /\ (empty(lhs) \/ empty(rhs)) THEN "abort"
  ELSE std_equal(begin(lhs), end(lhs), begin(rhs), lhs, rhs, 0)

\* Two queues of capacity QCap, each under precondition-respecting push, pop
\* and pop_and_push, and the comparison q == r.
InitEq ==
  /\ q \in {EmptyQueue(QCap, s) : s \in Slots(QCap)}
  /\ r \in {EmptyQueue(QCap, s) : s \in Slots(QCap)}
  /\ iter = NoIter
  /\ cmp = "none"
  /\ op = "init"
  /\ gen = Unused /\ gen2 = Unused /\ out = Unused
  /\ harness = Unused /\ status = Unused
  /\ slv = Unused /\ steps = 0

EqPush(left, v) ==
  /\ push_assert(IF left THEN q ELSE r)
  /\ IF left THEN q' = push(q, v) /\ r' = r
             ELSE r' = push(r, v) /\ q' = q
  /\ cmp' = "none"
  /\ op' = "push"
  /\ UNCHANGED <<iter, genVars>>

EqPop(left) ==
  /\ pop_assert(IF left THEN q ELSE r)
  /\ IF left THEN q' = pop(q) /\ r' = r
             ELSE r' = pop(r) /\ q' = q
  /\ cmp' = "none"
  /\ op' = "pop"
  /\ UNCHANGED <<iter, genVars>>

EqPopAndPush(left, v) ==
  /\ pop_assert(IF left THEN q ELSE r)
  /\ IF left THEN q' = pop_and_push(q, v) /\ r' = r
             ELSE r' = pop_and_push(r, v) /\ q' = q
  /\ cmp' = "none"
  /\ op' = "pop_and_push"
  /\ UNCHANGED <<iter, genVars>>

\* q == r, in a build with the asserts and in one with NDEBUG.
EqCompare ==
  /\ cmp' = [assertions |-> queue_eq(q, r, FALSE), ndebug |-> queue_eq(q, r, TRUE)]
  /\ op' = "compare"
  /\ UNCHANGED <<queueVars, genVars>>

NextEq ==
  \/ \E left \in BOOLEAN, v \in Vals : EqPush(left, v)
  \/ \E left \in BOOLEAN : EqPop(left)
  \/ \E left \in BOOLEAN, v \in Vals : EqPopAndPush(left, v)
  \/ EqCompare

SpecEq == InitEq /\ [][NextEq]_vars

\* C7: queue equality.  q == r returns true exactly when q and r have the same
\* size and the same elements in logical order, two empty queues included.
C7_QueueEquality ==
  op = "compare" =>
    LET same == IF Contents(q) = Contents(r) THEN "true" ELSE "false"
    IN  cmp.assertions = same /\ cmp.ndebug = same

\* ------------------------------------------------------------ std::uint32_t
\* A 32-bit unsigned number is <<hi, lo>>, hi and lo in 0 .. 2^16 - 1.
u32(n) == <<n \div (2^16), n % (2^16)>>          \* of a number 0 <= n < 2^31

\* Unsigned addition, wrapping modulo 2^32.
u32_add(a, b) ==
  LET lo == a[2] + b[2]
  IN  <<(a[1] + b[1] + (lo \div (2^16))) % (2^16), lo % (2^16)>>

\* x >> 1
u32_shr1(a) == <<a[1] \div 2, ((a[1] % 2) * (2^15)) + (a[2] \div 2)>>

\* (x << 1) | bit, bit in {0, 1}; the top bit is shifted out.
u32_shl1_or(a, bit) ==
  <<((2 * a[1]) + (a[2] \div (2^15))) % (2^16), ((2 * a[2]) % (2^16)) + bit>>

u32_mod_2_31_keeps_top_bit(a) == a

\* x % (1uL << 31)
u32_mod_2_31(a) == <<a[1] % (2^15), a[2]>>

\* x & 1
u32_low_bit(a) == a[2] % 2

u32_le(a, b) == a[1] < b[1] \/ (a[1] = b[1] /\ a[2] <= b[2])

\* ------------------------------------------------------ reference_generator
LcgMultiplier == 16807
LcgModulus == 2147483647
TableSize == 31          \* table_type = cyclic_fixed_queue<result_type, 31>
WarmupFirst == 34        \* for (int i = 34; i < 344; ++i) advance();
WarmupLast == 344

\* (16807LL * x) % 2147483647 for 0 <= x < 2147483647.  The 64-bit product does
\* not fit TLC's integers, so it is taken by Schrage's decomposition of the
\* modulus, m = a * (m div a) + (m mod a), which yields the same residue.
lcg_mul(x) ==
  LET t == (LcgMultiplier * (x % (LcgModulus \div LcgMultiplier)))
           - ((LcgModulus % LcgMultiplier) * (x \div (LcgModulus \div LcgMultiplier)))
  IN  IF t < 0 THEN t + LcgModulus ELSE t

\* static_cast<std::int32_t>(w), reduced modulo 2147483647 into 0 .. 2147483646:
\* a word with the top bit set is the negative number w - 2^32, and
\* 2^32 = 2 (mod 2147483647).
int32_residue(w) ==
  IF w[1] < 2^15 THEN ((w[1] * (2^16)) + w[2]) % LcgModulus
  ELSE LET low == (((w[1] - 2^15) * (2^16)) + w[2]) % LcgModulus   \* w - 2^31 = low
       IN  IF low = 0 THEN LcgModulus - 1 ELSE low - 1         \* w - 2^32 = low - 1

\* A std::uint32_t converted to long long, reduced modulo 2147483647:
\* 2^31 = 1 (mod 2147483647).
uint32_residue(w) ==
  IF w[1] < 2^15 THEN ((w[1] * (2^16)) + w[2]) % LcgModulus
  ELSE (((((w[1] - 2^15) * (2^16)) + w[2]) % LcgModulus) + 1) % LcgModulus

\* auto value = (16807LL * static_cast<std::int32_t>(result.back())) % 2147483647;
\* if (value < 0) value += 2147483647;      -- the residue in 0 .. 2147483646
lcg_next_unsigned(w) == u32(lcg_mul(uint32_residue(w)))

lcg_next(w) == u32(lcg_mul(int32_residue(w)))

\* The slot of the default-constructed table of table_from_seed that no push
\* has written yet: its 31 pushes and 3 rotations write all 32 slots before it
\* returns, and none is read before it is written.
Unwritten == <<0, 0>>

RECURSIVE seed_pushes(_, _)
seed_pushes(result, i) ==
  IF i >= TableSize THEN result
  ELSE seed_pushes(push(result, lcg_next(back(result))), i + 1)

RECURSIVE seed_rotations(_, _)
seed_rotations(result, i) ==
  IF i >= WarmupFirst THEN result
  ELSE seed_rotations(pop_and_push(result, front(result)), i + 1)

\* table_from_seed(seed)
table_from_seed(seed) ==
  LET result == EmptyQueue(TableSize, [k \in 0 .. TableSize |-> Unwritten])
  IN  seed_rotations(seed_pushes(push(result, seed), 1), TableSize)

peek_state_wrong_lag(g) == u32_add(at(g.queue_, -2), at(g.queue_, -31))

\* peek_state(): queue_(-3) + queue_(-31)
peek_state(g) == u32_add(at(g.queue_, -3), at(g.queue_, -31))

\* peek(): peek_state() >> 1
peek(g) == u32_shr1(peek_state(g))

\* advance(): return queue_.pop_and_push(peek_state()) >> 1;  the generator
\* after the call and the value returned (push returns the slot it wrote).
advance_no_shift(g) ==
  LET next == [queue_ |-> pop_and_push(g.queue_, peek_state(g))]
  IN  [gen |-> next, value |-> back(next.queue_)]

advance(g) ==
  LET next == [queue_ |-> pop_and_push(g.queue_, peek_state(g))]
  IN  [gen |-> next, value |-> u32_shr1(back(next.queue_))]

\* TRUE.  TLC passes arguments unevaluated; a test of Evaluated(x) where an
\* operator begins makes it evaluate x there, which keeps long iterations from
\* piling up on its stack.
Evaluated(x) == x = x

\* n calls of advance(), the values dropped.  (The calls are split in halves to
\* keep the evaluation shallow.)
RECURSIVE advance_times(_, _)
advance_times(g, n) ==
  IF n <= 0 \/ ~Evaluated(g) THEN g
  ELSE IF n = 1 THEN advance(g).gen
  ELSE advance_times(advance_times(g, n \div 2), n - (n \div 2))

\* reference_generator(result_type seed): for (int i = 34; i < 344; ++i) advance();
generator_from_seed(seed) ==
  advance_times([queue_ |-> table_from_seed(seed)], WarmupLast - WarmupFirst)

\* reference_generator(const table_type& table)
generator_from_table(table) == [queue_ |-> table]

\* min() and max()
generator_min == <<0, 0>>
generator_max == u32_shr1(<<2^16 - 1, 2^16 - 1>>)

\* -------------------------------------------------------------- the seeds
MaxSeed == 10         \* the seeds 1 .. MaxSeed
MaxHighSeed == 1      \* and the seeds 2^31 .. 2^31 + MaxHighSeed

Seeds == {u32(k) : k \in 1 .. MaxSeed} \cup {<<2^15, k>> : k \in 0 .. MaxHighSeed}

\* ------------------------------------------- compare_implementation.cpp
reference_buffer_offset == 344

\* reference_implementation(seed, count): result[0 .. count + 344 - 1], here a
\* sequence whose element k + 1 is result[k].
ref_next(result) ==
  LET i == Len(result)
  IN  IF i < TableSize THEN lcg_next_unsigned(result[i])             \* result[i - 1]
      ELSE IF i < WarmupFirst THEN result[i - 31 + 1]
      ELSE u32_add(result[i - 3 + 1], result[i - 31 + 1])

\* n more elements.  (Split in halves to keep the evaluation shallow.)
RECURSIVE ref_fill(_, _)
ref_fill(result, n) ==
  IF n <= 0 \/ ~Evaluated(result) THEN result
  ELSE IF n = 1 THEN Append(result, ref_next(result))
  ELSE ref_fill(ref_fill(result, n \div 2), n - (n \div 2))

reference_implementation(seed, count) ==
  ref_fill(<<seed>>, count + reference_buffer_offset - 1)

\* main(): the generator of the seed is compared, output by output, with the
\* reference buffer; then assert(gen == gen).
MaxCount == 9         \* the argument <count> is 0 .. MaxCount

InitCompare ==
  /\ \E seed \in Seeds, count \in 0 .. MaxCount, ndebug \in BOOLEAN :
       /\ gen = generator_from_seed(seed)
       /\ harness = [seed |-> seed, count |-> count, i |-> 0, ndebug |-> ndebug,
                     reference_buffer |-> reference_implementation(seed, count)]
  /\ status = "loop"
  /\ out = Unused /\ gen2 = Unused /\ slv = Unused /\ steps = 0
  /\ cmp = "none"
  /\ op = "init"
  /\ q = Unused /\ r = Unused /\ iter = Unused

\* One turn of the loop: expected_value and generated_value, and the exit on a
\* mismatch.
CompareValue ==
  /\ status = "loop"
  /\ harness.i < harness.count
  /\ LET expected_value ==
           u32_shr1(harness.reference_buffer[harness.i + reference_buffer_offset + 1])
         a == advance(gen)
     IN  /\ gen' = a.gen
         /\ out' = [expected |-> expected_value, generated |-> a.value]
         /\ IF expected_value # a.value
              THEN status' = "mismatch" /\ harness' = harness
              ELSE status' = status /\ harness' = [harness EXCEPT !.i = @ + 1]
  /\ op' = "compare_value"
  /\ UNCHANGED <<queueVars, cmp, gen2, slv, steps>>

\* After the loop: assert(gen == gen); assert(!(gen != gen)); then success.
CompareDone ==
  /\ status = "loop"
  /\ harness.i = harness.count
  /\ LET eq == queue_eq(gen.queue_, gen.queue_, FALSE)
     IN  IF harness.ndebug
           THEN cmp' = cmp /\ status' = "matched"
           ELSE /\ cmp' = eq
                /\ status' = CASE eq = "true" -> "matched"
                               [] eq = "false" -> "abort"
                               [] OTHER -> eq
  /\ op' = "done"
  /\ UNCHANGED <<queueVars, gen, gen2, out, harness, slv, steps>>

NextCompare == CompareValue \/ CompareDone

SpecCompare == InitCompare /\ [][NextCompare]_vars

\* C3: bit-exactness.  For every non-zero seed, seeds of 2^31 and more
\* included, and every n, the n-th output of the generator is element n + 344
\* of the scalar reference buffer shifted right by 1.
C3_BitExact ==
  op = "compare_value" => out.generated = out.expected

\* --------------------------------------------------------------- SpecGen
\* Two generators that compare equal, advanced together.  gen is built from a
\* seed or from a table; gen2 is built from a table that holds the words of
\* gen's table in the same logical order at another physical front.

\* cyclic_fixed_queue(first, last): push(*first) for each element.
RECURSIVE queue_from_range(_, _, _)
queue_from_range(c, elements, k) ==
  IF k > Len(elements) THEN c
  ELSE queue_from_range(push(c, elements[k]), elements, k + 1)

\* A queue that has seen n pushes and n pops: empty, its front at n.
RECURSIVE queue_used(_, _, _)
queue_used(c, n, value) ==
  IF n <= 0 THEN c ELSE queue_used(pop(push(c, value)), n - 1, value)

\* The words a table is filled with: 0, 1, 0x7FFFFFFF, 0x80000000, 0xFFFFFFFF.
TableWords == {<<0, 0>>, <<0, 1>>, <<2^15 - 1, 2^16 - 1>>, <<2^15, 0>>, <<2^16 - 1, 2^16 - 1>>}

\* The tables whose words are alternately w1 and w2.
Tables ==
  {[k \in 1 .. TableSize |-> IF k % 2 = 1 THEN w[1] ELSE w[2]] : w \in TableWords \X TableWords}

MaxFront == 2         \* gen2's table starts at a front in 0 .. MaxFront
MaxAdvance == 33      \* the generators are advanced at most MaxAdvance times

\* storage_ has no initializer: the slot that the 31 pushes of
\* cyclic_fixed_queue(first, last) leave unwritten holds what the memory held,
\* here 0, 0xA5A5A5A5 or 0xFFFFFFFF.
Indeterminate == {<<0, 0>>, <<42405, 42405>>, <<2^16 - 1, 2^16 - 1>>}

table_at_front(elements, n, junk) ==
  queue_from_range(
    queue_used(EmptyQueue(TableSize, [k \in 0 .. TableSize |-> junk]), n, junk),
    elements, 1)

\* gen == gen2 and gen2 == gen, in a build with the asserts and in one without.
generators_eq(a, b) ==
  [ab |-> queue_eq(a.queue_, b.queue_, FALSE), ab_ndebug |-> queue_eq(a.queue_, b.queue_, TRUE),
   ba |-> queue_eq(b.queue_, a.queue_, FALSE), ba_ndebug |-> queue_eq(b.queue_, a.queue_, TRUE)]

AllTrue == [ab |-> "true", ab_ndebug |-> "true", ba |-> "true", ba_ndebug |-> "true"]

\* cmp when the generators have changed since the last comparison.
NotCompared == [ab |-> "none", ab_ndebug |-> "none", ba |-> "none", ba_ndebug |-> "none"]

InitGen ==
  /\ gen \in {generator_from_seed(seed) : seed \in Seeds}
             \cup {generator_from_table(table_at_front(t, 0, junk)) :
                     t \in Tables, junk \in Indeterminate}
  /\ gen2 \in {generator_from_table(table_at_front(Contents(gen.queue_), n, junk)) :
                n \in 0 .. MaxFront, junk \in Indeterminate}
  /\ generators_eq(gen, gen2) = AllTrue
  /\ cmp = AllTrue
  /\ out = Unused
  /\ steps = 0
  /\ op = "init"
  /\ harness = Unused /\ status = Unused /\ slv = Unused
  /\ q = Unused /\ r = Unused /\ iter = Unused

\* gen.advance() and gen2.advance()
GenAdvance ==
  /\ steps < MaxAdvance
  /\ LET a == advance(gen)
         b == advance(gen2)
     IN  /\ gen' = a.gen
         /\ gen2' = b.gen
         /\ out' = [a |-> a.value, b |-> b.value]
  /\ steps' = steps + 1
  /\ cmp' = NotCompared
  /\ op' = "advance"
  /\ UNCHANGED <<queueVars, harness, status, slv>>

\* gen.peek() and gen2.peek()
GenPeek ==
  /\ out' = [a |-> peek(gen), b |-> peek(gen2)]
  /\ cmp' = NotCompared
  /\ op' = "peek"
  /\ UNCHANGED <<queueVars, gen, gen2, harness, status, slv, steps>>

\* gen == gen2
GenCompare ==
  /\ cmp' = generators_eq(gen, gen2)
  /\ out' = Unused
  /\ op' = "compare"
  /\ UNCHANGED <<queueVars, gen, gen2, harness, status, slv, steps>>

NextGen == GenAdvance \/ GenPeek \/ GenCompare

SpecGen == InitGen /\ [][NextGen]_vars

\* C4: output range.  Every value advance() or peek() returns lies between
\* min() = 0 and max() = 2^31 - 1, whatever the table holds.
C4_OutputRange ==
  op \in {"advance", "peek"} =>
    /\ u32_le(generator_min, out.a) /\ u32_le(out.a, generator_max)
    /\ u32_le(generator_min, out.b) /\ u32_le(out.b, generator_max)

\* advance() has returned max() itself, from a table of words 0xFFFFFFFF.
C4_Witness ==
  /\ op = "advance"
  /\ out.a = generator_max
  /\ steps = 1

\* C5: two generators that compare equal return the same outputs at every
\* advance() and still compare equal after any number of them.
C5_Determinism ==
  /\ op = "advance" => out.a = out.b
  /\ op = "compare" => cmp = AllTrue

\* C16: the table holds 31 words after construction and after every advance();
\* one advance() turns the contents w0, w1, ..., w30 into w1, ..., w30, n with
\* n = (w28 + w0) mod 2^32 taken from the table before the call, and returns
\* n >> 1.
C16_TableInvariant ==
  /\ [](size(gen.queue_) = TableSize /\ size(gen2.queue_) = TableSize)
  /\ [][GenAdvance =>
          LET w == Contents(gen.queue_)
              n == u32_add(w[29], w[1])
              w2 == Contents(gen2.queue_)
              n2 == u32_add(w2[29], w2[1])
          IN  /\ Contents(gen'.queue_) = Append(Tail(w), n)
              /\ out'.a = u32_shr1(n)
              /\ Contents(gen2'.queue_) = Append(Tail(w2), n2)
              /\ out'.b = u32_shr1(n2)]_vars

\* advance() has replaced every word the table was constructed with, and the
\* ring has gone once round its 32 slots.
C16_Witness ==
  /\ op = "advance"
  /\ steps = TableSize + 2

\* ------------------------------------------------------ GF(2) bit vectors
\* A std::uint32_t of coefficients is the set of the positions of its set bits.
Bits == 0 .. 31

bit(i) == {i}                                  \* 1 << i
bit_xor(a, b) == (a \ b) \cup (b \ a)          \* a ^ b
bit_and(a, b) == a \cap b                      \* a & b
popcount(a) == Cardinality(a)                  \* std::popcount(a)
countr_zero(a) == CHOOSE b \in a : \A c \in a : b <= c     \* a # 0

\* ------------------------------------------------- semicanonical_b32x32
\* The matrix is rows_, a function from 0 .. 31 to rows.
MatrixSize == 32

ZeroMatrix == [i \in 0 .. MatrixSize - 1 |-> {}]

row_sum_of_every_row(rows_, select) ==
  {b \in Bits : Cardinality({i \in Bits : b \in rows_[i]}) % 2 = 1}

\* row_sum(select): the XOR of the rows select chooses; bit b of it is set when
\* an odd number of the chosen rows have bit b set.
row_sum(rows_, select) ==
  {b \in Bits : Cardinality({i \in select : b \in rows_[i]}) % 2 = 1}

\* push_row without the elimination of the new pivot from the other rows.
push_row_without_elimination(rows_, row) ==
  LET reduced == bit_xor(row, row_sum(rows_, row))
  IN  IF reduced = {} THEN [rows_ |-> rows_, pushed |-> FALSE, asserts |-> TRUE]
      ELSE LET pivot == countr_zero(reduced)
           IN  [rows_ |-> [rows_ EXCEPT ![pivot] = reduced],
                pushed |-> TRUE,
                asserts |-> rows_[pivot] = {}]

\* push_row without the reduction of the row by the pivots present.
push_row_without_reduction(rows_, row) ==
  IF row = {} THEN [rows_ |-> rows_, pushed |-> FALSE, asserts |-> TRUE]
  ELSE LET pivot == countr_zero(row)
       IN  [rows_ |-> [i \in 0 .. MatrixSize - 1 |->
                         IF i = pivot THEN row
                         ELSE IF pivot \in rows_[i] THEN bit_xor(rows_[i], row)
                         ELSE rows_[i]],
            pushed |-> TRUE,
            asserts |-> rows_[pivot] = {}]

\* push_row(row): the matrix after the call, what it returned, and whether
\* assert(rows_[pivot] == 0) held.
push_row(rows_, row) ==
  LET reduced == bit_xor(row, row_sum(rows_, row))
  IN  IF reduced = {} THEN [rows_ |-> rows_, pushed |-> FALSE, asserts |-> TRUE]
      ELSE LET pivot == countr_zero(reduced)
           IN  [rows_ |-> [i \in 0 .. MatrixSize - 1 |->
                             IF i = pivot THEN reduced
                             ELSE IF pivot \in rows_[i] THEN bit_xor(rows_[i], reduced)
                             ELSE rows_[i]],
                pushed |-> TRUE,
                asserts |-> rows_[pivot] = {}]

\* ------------------------------------------------------------- SpecMatrix
\* A semicanonical_b32x32, zero at first, under push_row(row) with rows whose
\* set bits are among the positions 0 .. MaxLowBit, 30 and 31.  slv is rows_;
\* out is what the last call returned.  harness is kept beside the matrix: the
\* set of the GF(2) linear combinations of the rows pushed so far.
MaxLowBit == 1

RowBits == (0 .. MaxLowBit) \cup {30, 31}
Rows == SUBSET RowBits

\* The XOR of a set of rows, and the row space of a matrix: the XORs of the
\* subsets of its rows.
XorOf(rowset) == {b \in UNION rowset : Cardinality({x \in rowset : b \in x}) % 2 = 1}
RowSpace(rows_) == {XorOf(t) : t \in SUBSET {rows_[i] : i \in 0 .. MatrixSize - 1}}

\* The span of a row space and one more row.
SpanWith(space, row) == space \cup {bit_xor(x, row) : x \in space}

InitMatrix ==
  /\ slv = ZeroMatrix
  /\ harness = {{}}
  /\ out = Unused
  /\ op = "init"
  /\ cmp = "none"
  /\ gen = Unused /\ gen2 = Unused /\ status = Unused /\ steps = 0
  /\ q = Unused /\ r = Unused /\ iter = Unused

\* matrix.push_row(row)
PushRow(row) ==
  /\ LET p == push_row(slv, row)
     IN  /\ slv' = p.rows_
         /\ out' = [pushed |-> p.pushed, asserts |-> p.asserts,
                    dependent |-> row \in harness, unchanged |-> p.rows_ = slv]
  /\ harness' = SpanWith(harness, row)
  /\ op' = "push_row"
  /\ UNCHANGED <<queueVars, cmp, gen, gen2, status, steps>>

\* matrix.push_row(row); matrix.push_row(row);  out is what the second call
\* returned, unchanged comparing the matrix after it with the one before it.
PushRowTwice(row) ==
  /\ LET first == push_row(slv, row)
         second == push_row(first.rows_, row)
     IN  /\ slv' = second.rows_
         /\ out' = [pushed |-> second.pushed, asserts |-> first.asserts /\ second.asserts,
                    dependent |-> TRUE, unchanged |-> second.rows_ = first.rows_]
  /\ harness' = SpanWith(harness, row)
  /\ op' = "push_row_twice"
  /\ UNCHANGED <<queueVars, cmp, gen, gen2, status, steps>>

NextMatrix ==
  \/ \E row \in Rows : PushRow(row)
  \/ \E row \in Rows : PushRowTwice(row)

SpecMatrix == InitMatrix /\ [][NextMatrix]_vars

\* C12: the matrix is semi-canonical.  Every non-zero row i has its lowest set
\* bit at position i and every other row has bit i clear, and no call of
\* push_row has failed assert(rows_[pivot] == 0).
C12_SemiCanonical ==
  /\ \A i \in 0 .. MatrixSize - 1 :
       slv[i] # {} => /\ countr_zero(slv[i]) = i
                      /\ \A j \in (0 .. MatrixSize - 1) \ {i} : i \notin slv[j]
  /\ op \in {"push_row", "push_row_twice"} => out.asserts

\* A push has put a row in, the matrix holds pivots at positions 0 and 31, and
\* a pivot row carries bits besides its pivot.
C12_Witness ==
  /\ op = "push_row" /\ out.pushed
  /\ slv[0] # {} /\ slv[31] # {}
  /\ \E i \in 0 .. MatrixSize - 1 : Cardinality(slv[i]) > 1

\* C13: push_row(row) returns true exactly when row is no linear combination
\* of the rows the matrix holds; the row space of the matrix is then the span
\* of the old row space and row; when it returns false the matrix is as it was.
\* (The row space of the zero matrix is the zero row alone, so the row space
\* after every call is the span of the rows pushed so far.)
C13_PushRowSpan ==
  /\ RowSpace(slv) = harness
  /\ op = "push_row" => /\ out.pushed = ~out.dependent
                        /\ ~out.pushed => out.unchanged

\* A row that is the sum of two rows of the matrix, and is none of them, has
\* been turned down.
C13_Witness ==
  /\ op = "push_row" /\ ~out.pushed
  /\ Cardinality(harness) >= 4
  /\ Cardinality({i \in 0 .. MatrixSize - 1 : slv[i] # {}}) >= 2

\* C14: the second of two successive push_row(r) returns false and leaves the
\* 32 rows as the first call left them.
C14_Idempotence ==
  op = "push_row_twice" => /\ ~out.pushed
                           /\ out.unchanged

\* push_row has been called twice with one row, and the matrix holds three
\* rows or more.
C14_Witness ==
  /\ op = "push_row_twice"
  /\ Cardinality({i \in 0 .. MatrixSize - 1 : slv[i] # {}}) >= 3

\* ----------------------------------------------------------------- solver
\* The solver is [history, parity, equations], equations being [rank, matrix].
FullRank == 31

\* equations.push(coefficients, parity):
\*   coefficients |= parity << 31; return (rank += matrix.push_row(coefficients)) == 31;
\* (pushed is what push_row returned to it.)
equations_push_counts_every_call(equations, coefficients, parity) ==
  LET p == push_row(equations.matrix, coefficients \cup (IF parity THEN bit(31) ELSE {}))
      rank == equations.rank + 1
  IN  [equations |-> [rank |-> rank, matrix |-> p.rows_],
       solvable |-> rank = FullRank,
       pushed |-> p.pushed,
       asserts |-> p.asserts]

equations_push_without_parity(equations, coefficients, parity) ==
  LET p == push_row(equations.matrix, coefficients)
      rank == equations.rank + (IF p.pushed THEN 1 ELSE 0)
  IN  [equations |-> [rank |-> rank, matrix |-> p.rows_],
       solvable |-> rank = FullRank,
       pushed |-> p.pushed,
       asserts |-> p.asserts]

equations_push(equations, coefficients, parity) ==
  LET p == push_row(equations.matrix, coefficients \cup (IF parity THEN bit(31) ELSE {}))
      rank == equations.rank + (IF p.pushed THEN 1 ELSE 0)
  IN  [equations |-> [rank |-> rank, matrix |-> p.rows_],
       solvable |-> rank = FullRank,
       pushed |-> p.pushed,
       asserts |-> p.asserts]

\* ---------------------------------------------------------- SpecEquations
\* The equations member of a solver, rank 0 and the zero matrix at first,
\* under equations.push(coefficients, parity) with coefficients among Rows.
\* slv is [rank, matrix]; out is what the last call did.
InitEquations ==
  /\ slv = [rank |-> 0, matrix |-> ZeroMatrix]
  /\ out = Unused
  /\ op = "init"
  /\ cmp = "none"
  /\ harness = Unused
  /\ gen = Unused /\ gen2 = Unused /\ status = Unused /\ steps = 0
  /\ q = Unused /\ r = Unused /\ iter = Unused

EquationsPush(coefficients, parity) ==
  /\ LET e == equations_push(slv, coefficients, parity)
     IN  /\ slv' = e.equations
         /\ out' = [pushed |-> e.pushed, solvable |-> e.solvable, asserts |-> e.asserts,
                    rank_before |-> slv.rank]
  /\ op' = "equations_push"
  /\ UNCHANGED <<queueVars, cmp, gen, gen2, harness, status, steps>>

NextEquations == \E coefficients \in Rows, parity \in BOOLEAN : EquationsPush(coefficients, parity)

SpecEquations == InitEquations /\ [][NextEquations]_vars

\* C15: rank accounting.  rank is the number of non-zero rows of the matrix;
\* a push has added 1 to it when push_row returned true and has left it as it
\* was otherwise, so no push has lowered it.
C15_RankAccounting ==
  /\ slv.rank = Cardinality({i \in 0 .. MatrixSize - 1 : slv.matrix[i] # {}})
  /\ op = "equations_push" =>
       /\ slv.rank = out.rank_before + (IF out.pushed THEN 1 ELSE 0)
       /\ slv.rank >= out.rank_before

\* A push has been turned down by a matrix of rank 2 or more: the rank stayed.
C15_Witness ==
  /\ op = "equations_push" /\ ~out.pushed
  /\ slv.rank >= 2


parity_step_wrong_lag(parity) ==
  pop_and_push(parity, bit_xor(at(parity, -2), at(parity, -31)))

\* One parity.pop_and_push(parity(-3) ^ parity(-31)).
parity_step(parity) == pop_and_push(parity, bit_xor(at(parity, -3), at(parity, -31)))

RECURSIVE parity_steps(_, _)
parity_steps(parity, n) ==
  IF n <= 0 \/ ~Evaluated(parity) THEN parity
  ELSE IF n = 1 THEN parity_step(parity)
  ELSE parity_steps(parity_steps(parity, n \div 2), n - (n \div 2))

RECURSIVE parity_pushes(_, _)
parity_pushes(parity, i) ==
  IF i >= TableSize THEN parity ELSE parity_pushes(push(parity, bit(i)), i + 1)

RECURSIVE parity_rotations(_, _)
parity_rotations(parity, i) ==
  IF i >= WarmupFirst THEN parity
  ELSE parity_rotations(pop_and_push(parity, front(parity)), i + 1)

\* solver(): history is left empty, its storage uninitialized (every slot holds
\* junk); parity is filled and warmed up as the generator's table is.
solver(junk) ==
  [history |-> EmptyQueue(TableSize, [k \in 0 .. TableSize |-> junk]),
   parity |-> parity_steps(
                parity_rotations(
                  parity_pushes(EmptyQueue(TableSize, [k \in 0 .. TableSize |-> {}]), 0),
                  TableSize),
                WarmupLast - WarmupFirst),
   equations |-> [rank |-> 0, matrix |-> ZeroMatrix]]

\* for (auto& x : c): the slots visited from begin() until the iterator equals
\* end().  The iterator goes round the ring with period std::ssize(storage_),
\* so a walk that is longer than that never ends.
RECURSIVE range_slots(_, _, _, _)
range_slots(first, last, c, visited) ==
  IF first.it = last.it THEN [ends |-> TRUE, slots |-> visited]
  ELSE IF Len(visited) >= storage_ssize(c) THEN [ends |-> FALSE, slots |-> visited]
  ELSE range_slots(iter_inc(first), last, c, Append(visited, first.it))

range_for(c) == range_slots(begin(c), end(c), c, <<>>)

\* solve_parities(): initial_state collects bit 31 of every row; the result has
\* bit i set when the i-th vector of parity, in iteration order, has an odd
\* number of coefficients in common with initial_state.
solve_parities(s) ==
  LET initial_state == {i \in 0 .. MatrixSize - 1 : 31 \in s.equations.matrix[i]}
      walk == range_for(s.parity)
  IN  [ends |-> walk.ends,
       value |-> {i \in 0 .. Len(walk.slots) - 1 :
                    popcount(bit_and(s.parity.storage[walk.slots[i + 1]], initial_state)) % 2 = 1},
       asserts |-> /\ s.equations.rank = FullRank
                   /\ \A i \in 0 .. MatrixSize - 1 : popcount(s.equations.matrix[i]) <= 2]

\* solve(): table = history; every state of table, in iteration order, becomes
\* (state << 1) | (parity_bits & 1), parity_bits shifted right each time.  The
\* call does not return when one of the two range-for loops never ends.
solve_drops_parities(s) ==
  LET walk == range_for(s.history)
  IN  [returns |-> walk.ends /\ solve_parities(s).ends,
       gen |-> generator_from_table(
                 [s.history EXCEPT !.storage =
                    [k \in DOMAIN s.history.storage |->
                       IF \E i \in 1 .. Len(walk.slots) : walk.slots[i] = k
                         THEN u32_shl1_or(s.history.storage[k], 0)
                         ELSE s.history.storage[k]]]),
       asserts |-> solve_parities(s).asserts]

solve(s) ==
  LET parity_bits == solve_parities(s)
      walk == range_for(s.history)
      position(k) == CHOOSE i \in 1 .. Len(walk.slots) : walk.slots[i] = k
  IN  [returns |-> walk.ends /\ parity_bits.ends,
       gen |-> generator_from_table(
                 [s.history EXCEPT !.storage =
                    [k \in DOMAIN s.history.storage |->
                       IF \E i \in 1 .. Len(walk.slots) : walk.slots[i] = k
                         THEN u32_shl1_or(s.history.storage[k],
                                          IF (position(k) - 1) \in parity_bits.value THEN 1 ELSE 0)
                         ELSE s.history.storage[k]]]),
       asserts |-> parity_bits.asserts]

\* const auto expected = (o31 + o3) % (1uL << 31);
feed_expected(o31, o3) == u32_mod_2_31(u32_add(o31, o3))

\* The comparison with the sum reduced modulo 2^31.
feed_assert_modulo_2_31(value, expected) == value = u32_mod_2_31(u32_add(expected, <<0, 1>>))

\* assert(value == (expected + 1uL)): expected is an unsigned long below 2^31
\* and the sum is taken in 64 bits, so it is not reduced modulo 2^31.
feed_assert(value, expected) == value = u32_add(expected, <<0, 1>>)

\* The outcome of a feed: the solver after it, the result ("nullopt", a
\* "generator", or "hang" when solve() does not return), the reconstructed
\* generator, and whether every assert met on the way held.
\* carry is whether assert(value == (expected + 1uL)) held, if it was met;
\* pushes lists the calls of equations.push the feed made, in order.
feed_result(s, kind, g, carry, asserts, pushes) ==
  [slv |-> s, kind |-> kind, gen |-> g, carry |-> carry, asserts |-> asserts,
   pushes |-> pushes]

\* One call of equations.push as feed made it: e is what equations_push gave.
pushed_equation(which, coefficients, e) ==
  [which |-> which, coefficients |-> coefficients, pushed |-> e.pushed, solvable |-> e.solvable]

\* feed with the push of (q3, 1) left out.
feed_pushes_one_equation(s, value) ==
  IF ssize(s.history) < TableSize
    THEN feed_result([s EXCEPT !.history = push(s.history, value),
                               !.parity = parity_step(s.parity)],
                     "nullopt", Unused, TRUE, TRUE, <<>>)
    ELSE
      LET o31 == at(s.history, -31)
          o3 == at(s.history, -3)
          q31 == at(s.parity, -31)
          q3 == at(s.parity, -3)
          q0 == bit_xor(q31, q3)
          moved == [s EXCEPT !.history = pop_and_push(s.history, value),
                             !.parity = pop_and_push(s.parity, q0)]
          expected == feed_expected(o31, o3)
          carry_assert == feed_assert(value, expected)
          first == equations_push(moved.equations, q31, TRUE)
          second == equations_push(first.equations, q3, TRUE)
          pushed == first
          after == [moved EXCEPT !.equations = pushed.equations]
          asserts == carry_assert /\ first.asserts /\ (first.solvable \/ second.asserts)
          pushes == <<pushed_equation("q31", q31, first)>>
      IN  IF value = expected THEN feed_result(moved, "nullopt", Unused, TRUE, TRUE, <<>>)
          ELSE IF ~pushed.solvable THEN feed_result(after, "nullopt", Unused, carry_assert, asserts, pushes)
          ELSE LET solved == solve(after)
               IN  IF solved.returns
                     THEN feed_result(after, "generator", solved.gen, carry_assert, asserts /\ solved.asserts,
                                      pushes)
                     ELSE feed_result(after, "hang", Unused, carry_assert, asserts /\ solved.asserts, pushes)

\* feed without the test value != expected: every feed on a full history pushes.
feed_pushes_at_every_feed(s, value) ==
  IF ssize(s.history) < TableSize
    THEN feed_result([s EXCEPT !.history = push(s.history, value),
                               !.parity = parity_step(s.parity)],
                     "nullopt", Unused, TRUE, TRUE, <<>>)
    ELSE
      LET o31 == at(s.history, -31)
          o3 == at(s.history, -3)
          q31 == at(s.parity, -31)
          q3 == at(s.parity, -3)
          q0 == bit_xor(q31, q3)
          moved == [s EXCEPT !.history = pop_and_push(s.history, value),
                             !.parity = pop_and_push(s.parity, q0)]
          expected == feed_expected(o31, o3)
          carry_assert == feed_assert(value, expected)
          first == equations_push(moved.equations, q31, TRUE)
          second == equations_push(first.equations, q3, TRUE)
          pushed == IF first.solvable THEN first ELSE second
          after == [moved EXCEPT !.equations = pushed.equations]
          asserts == carry_assert /\ first.asserts /\ (first.solvable \/ second.asserts)
          pushes == IF first.solvable THEN <<pushed_equation("q31", q31, first)>>
                    ELSE <<pushed_equation("q31", q31, first), pushed_equation("q3", q3, second)>>
      IN  IF FALSE THEN feed_result(moved, "nullopt", Unused, TRUE, TRUE, <<>>)
          ELSE IF ~pushed.solvable THEN feed_result(after, "nullopt", Unused, carry_assert, asserts, pushes)
          ELSE LET solved == solve(after)
               IN  IF solved.returns
                     THEN feed_result(after, "generator", solved.gen, carry_assert, asserts /\ solved.asserts,
                                      pushes)
                     ELSE feed_result(after, "hang", Unused, carry_assert, asserts /\ solved.asserts, pushes)

\* feed(value)
feed(s, value) ==
  IF ssize(s.history) < TableSize
    THEN feed_result([s EXCEPT !.history = push(s.history, value),
                               !.parity = parity_step(s.parity)],
                     "nullopt", Unused, TRUE, TRUE, <<>>)
    ELSE
      LET o31 == at(s.history, -31)
          o3 == at(s.history, -3)
          q31 == at(s.parity, -31)
          q3 == at(s.parity, -3)
          q0 == bit_xor(q31, q3)
          moved == [s EXCEPT !.history = pop_and_push(s.history, value),
                             !.parity = pop_and_push(s.parity, q0)]
          expected == feed_expected(o31, o3)
          carry_assert == feed_assert(value, expected)
          first == equations_push(moved.equations, q31, TRUE)
          second == equations_push(first.equations, q3, TRUE)
          pushed == IF first.solvable THEN first ELSE second
          after == [moved EXCEPT !.equations = pushed.equations]
          asserts == carry_assert /\ first.asserts /\ (first.solvable \/ second.asserts)
          pushes == IF first.solvable THEN <<pushed_equation("q31", q31, first)>>
                    ELSE <<pushed_equation("q31", q31, first), pushed_equation("q3", q3, second)>>
      IN  IF value = expected THEN feed_result(moved, "nullopt", Unused, TRUE, TRUE, <<>>)
          ELSE IF ~pushed.solvable THEN feed_result(after, "nullopt", Unused, carry_assert, asserts, pushes)
          ELSE LET solved == solve(after)
               IN  IF solved.returns
                     THEN feed_result(after, "generator", solved.gen, carry_assert, asserts /\ solved.asserts,
                                      pushes)
                     ELSE feed_result(after, "hang", Unused, carry_assert, asserts /\ solved.asserts, pushes)

\* -------------------------------------------------------------- SpecSolve
\* test_solver.cpp: a generator is built from the seed and its outputs are fed
\* one by one to a fresh solver until feed returns a generator
\* (reconstruct_prng); main() then compares the two generators.  Afterwards the
\* two generators are advanced together.
MaxAfter == 33        \* outputs drawn from both generators after the reconstruction

\* What the unwritten slots of history may hold.
HistoryJunk == {<<0, 0>>, <<2^16 - 1, 2^16 - 1>>}

\* The 31 seed-expanded words t[0 .. 30]: the table of table_from_seed before
\* its three rotations.
seed_expansion(seed) ==
  seed_pushes(push(EmptyQueue(TableSize, [k \in 0 .. TableSize |-> Unwritten]), seed), 1)

\* The initial system parities: the positions i with t[i] odd.
initial_parities(seed) ==
  {i \in 0 .. TableSize - 1 : u32_low_bit(at(seed_expansion(seed), i)) = 1}

\* harness.p holds the initial parities of the seed beside the program's state.
InitSolve ==
  /\ \E seed \in Seeds :
       /\ gen = generator_from_seed(seed)
       /\ harness = [after |-> 0, p |-> initial_parities(seed)]
  /\ slv \in {solver(junk) : junk \in HistoryJunk}
  /\ gen2 = Unused
  /\ status = "feeding"
  /\ steps = 0
  /\ out = Unused
  /\ cmp = "none"
  /\ op = "init"
  /\ q = Unused /\ r = Unused /\ iter = Unused

\* for (solver s; !result; result = s.feed(gen())) ++steps;
Feed ==
  /\ status = "feeding"
  /\ LET a == advance(gen)
         f == feed(slv, a.value)
     IN  /\ gen' = a.gen
         /\ slv' = f.slv
         /\ gen2' = f.gen
         /\ out' = [value |-> a.value, kind |-> f.kind, carry |-> f.carry, asserts |-> f.asserts,
                    pushes |-> f.pushes, rank_before |-> slv.equations.rank]
         /\ status' = CASE f.kind = "generator" -> "solved"
                        [] f.kind = "hang" -> "hang"
                        [] OTHER -> "feeding"
  /\ steps' = steps + 1
  /\ op' = "feed"
  /\ UNCHANGED <<queueVars, cmp, harness>>

\* gen != solved_gen, in a build with the asserts and in one with NDEBUG.
SolveCompare ==
  /\ status = "solved"
  /\ harness.after = 0
  /\ cmp' = [assertions |-> queue_eq(gen.queue_, gen2.queue_, FALSE),
             ndebug |-> queue_eq(gen.queue_, gen2.queue_, TRUE)]
  /\ status' = "compared"
  /\ op' = "compare"
  /\ UNCHANGED <<queueVars, gen, gen2, out, harness, slv, steps>>

\* The next output of the source and of the reconstructed generator.
NextOutputs ==
  /\ status \in {"solved", "compared"}
  /\ harness.after < MaxAfter
  /\ LET a == advance(gen)
         b == advance(gen2)
     IN  /\ gen' = a.gen
         /\ gen2' = b.gen
         /\ out' = [a |-> a.value, b |-> b.value]
  /\ harness' = [harness EXCEPT !.after = @ + 1]
  /\ op' = "outputs"
  /\ UNCHANGED <<queueVars, cmp, status, slv, steps>>

NextSolve == Feed \/ SolveCompare \/ NextOutputs

SpecSolve == InitSolve /\ [][NextSolve]_vars

\* C1: solver soundness.  When feed has returned a generator, its table holds
\* the same 31 words in logical order as the source's table, and from then on
\* every output of the reconstructed generator is the source's output.
C1_Soundness ==
  status \in {"solved", "compared"} =>
    /\ Contents(gen2.queue_) = Contents(gen.queue_)
    /\ op = "outputs" => out.a = out.b

\* feed has returned a generator and both generators have since been advanced.
C1_Witness ==
  /\ status \in {"solved", "compared"}
  /\ op = "outputs"
  /\ harness.after > TableSize

\* C2: termination.  For every seed the feeding loop gets a generator back
\* within 64 * 1024 feeds, the call of solve() made by that feed returning.
C2_Termination ==
  /\ status # "hang"
  /\ steps <= 64 * 1024

\* The GF(2) value of a coefficient vector on the initial parities p.
parity_of(coefficients, p) == popcount(bit_and(coefficients, p)) % 2

\* C17: parity lockstep.  After the solver's construction and after every feed
\* of the source's next output, parity holds 31 vectors and the value of
\* parity(k) on the initial parities is the low bit of the source's table(k),
\* k = -31 .. -1; once history is full, history(k) is table(k) >> 1.
C17_ParityLockstep ==
  harness.after = 0 =>
    /\ size(slv.parity) = TableSize
    /\ \A k \in -31 .. -1 :
         parity_of(at(slv.parity, k), harness.p) = u32_low_bit(at(gen.queue_, k))
    /\ ssize(slv.history) = TableSize =>
         \A k \in -31 .. -1 : at(slv.history, k) = u32_shr1(at(gen.queue_, k))

\* A feed has acted on a full history that has been overwritten once already.
C17_Witness ==
  /\ op = "feed"
  /\ harness.after = 0
  /\ ssize(slv.history) = TableSize
  /\ steps >= 2 * TableSize

\* C18: equation consistency.  Every row of equations.matrix holds of the true
\* initial parities: the XOR of the parities its bits 0 .. 30 select is its
\* bit 31.  Row 31 is zero and rank is at most 31.
C18_EquationConsistency ==
  /\ \A i \in 0 .. MatrixSize - 1 :
       parity_of(slv.equations.matrix[i] \ {31}, harness.p)
         = (IF 31 \in slv.equations.matrix[i] THEN 1 ELSE 0)
  /\ slv.equations.matrix[31] = {}
  /\ slv.equations.rank <= FullRank

\* The matrix holds the 31 equations that determine the initial parities.
C18_Witness ==
  /\ op = "feed"
  /\ slv.equations.rank = FullRank

\* -------------------------------------------------------------- SpecCarry
\* One step of the recurrence seen from both sides: the generator adds the
\* state words a = s_{i-31} and b = s_{i-3} and returns the sum shifted right;
\* feed finds the outputs a >> 1 and b >> 1 in history and computes expected.
\* The words are drawn from those whose halves lie within MaxEdge of 0, 2^15
\* and 2^16.
MaxEdge == 1

HalfEdges ==
  (0 .. MaxEdge) \cup (2^15 - 1 - MaxEdge .. 2^15 + MaxEdge) \cup (2^16 - 1 - MaxEdge .. 2^16 - 1)

CarryWords == HalfEdges \X HalfEdges

InitCarry ==
  /\ harness \in [a : CarryWords, b : CarryWords]
  /\ out = [s |-> <<0, 0>>, value |-> <<0, 0>>, expected |-> <<0, 0>>]
  /\ op = "init"
  /\ cmp = "none"
  /\ gen = Unused /\ gen2 = Unused /\ status = Unused /\ slv = Unused /\ steps = 0
  /\ q = Unused /\ r = Unused /\ iter = Unused

\* peek_state() and advance() on the one side, feed's expected on the other.
CarryStep ==
  /\ op = "init"
  /\ LET s == u32_add(harness.b, harness.a)
     IN  out' = [s |-> s,
                 value |-> u32_shr1(s),
                 expected |-> feed_expected(u32_shr1(harness.a), u32_shr1(harness.b))]
  /\ op' = "carry"
  /\ UNCHANGED <<queueVars, cmp, gen, gen2, harness, status, slv, steps>>

NextCarry == CarryStep

SpecCarry == InitCarry /\ [][NextCarry]_vars

\* C19: carry characterisation.  With c = 1 when the low bits of a and b are
\* both 1 and c = 0 otherwise, s >> 1 is ((a >> 1) + (b >> 1) + c) mod 2^31;
\* when c = 1 the low bit of s is 0; and the output differs from feed's
\* expected exactly when c = 1.
C19_CarryCharacterisation ==
  op = "carry" =>
    LET c == IF u32_low_bit(harness.a) = 1 /\ u32_low_bit(harness.b) = 1 THEN 1 ELSE 0
    IN  /\ out.value = u32_mod_2_31(u32_add(u32_add(u32_shr1(harness.a), u32_shr1(harness.b)),
                                             <<0, c>>))
        /\ c = 1 => u32_low_bit(out.s) = 0
        /\ (out.value # out.expected) = (c = 1)

\* A carry out of the low bits with expected = 2^31 - 1: the output wraps to 0.
C19_Witness ==
  /\ op = "carry"
  /\ u32_low_bit(harness.a) = 1 /\ u32_low_bit(harness.b) = 1
  /\ out.expected = <<2^15 - 1, 2^16 - 1>>
  /\ out.value = <<0, 0>>

\* --------------------------------------------------------------- SpecFeed
\* A fresh solver fed the outputs of a reference_generator that is built from
\* a seed or from a table, MaxFeeds outputs at most.  The tables are those of
\* SpecGen and those that hold two words of TableWords in front of 29 zeros.
MaxFeeds == 40

TwoWordTables ==
  {[k \in 1 .. TableSize |-> IF k = 1 THEN w[1] ELSE IF k = 2 THEN w[2] ELSE <<0, 0>>] :
     w \in TableWords \X TableWords}

InitFeed ==
  /\ gen \in {generator_from_seed(seed) : seed \in Seeds}
             \cup {generator_from_table(table_at_front(t, 0, junk)) :
                     t \in Tables \cup TwoWordTables, junk \in Indeterminate}
  /\ slv \in {solver(junk) : junk \in HistoryJunk}
  /\ gen2 = Unused
  /\ status = "feeding"
  /\ steps = 0
  /\ harness = Unused
  /\ out = Unused
  /\ cmp = "none"
  /\ op = "init"
  /\ q = Unused /\ r = Unused /\ iter = Unused

\* result = s.feed(gen())
FeedNext ==
  /\ steps < MaxFeeds
  /\ Feed

NextFeed == FeedNext

SpecFeed == InitFeed /\ [][NextFeed]_vars

\* C20: the carry assertion.  Whenever a feed with a full history finds
\* value != expected, assert(value == (expected + 1uL)) holds, expected = 2^31 - 1
\* included.
C20_CarryAssert ==
  op = "feed" => out.carry

\* C21: on a carry event feed pushes (q31, 1) first and pushes (q3, 1) only
\* when the first push was dependent; a first push that is independent is the
\* only push of its feed, so rank grows by at most 1 in a feed.
C21_SecondPushOnlyIfDependent ==
  op = "feed" =>
    /\ Len(out.pushes) <= 2
    /\ Len(out.pushes) >= 1 => out.pushes[1].which = "q31"
    /\ Len(out.pushes) = 2 => /\ out.pushes[2].which = "q3"
                              /\ ~out.pushes[1].pushed
    /\ slv.equations.rank <= out.rank_before + 1

\* C22: after a carry-event feed that returns no generator, the equation of
\* the newest state, the coefficients parity(-1) = q31 ^ q3 with constant 0, is
\* a linear combination of the rows of the matrix: push_row would return false.
C22_ThirdFactImplied ==
  (op = "feed" /\ out.kind = "nullopt" /\ Len(out.pushes) >= 1) =>
    ~push_row(slv.equations.matrix, at(slv.parity, -1)).pushed

\* A carry-event feed has pushed two equations and returned no generator.
C22_Witness ==
  /\ op = "feed" /\ out.kind = "nullopt"
  /\ Len(out.pushes) = 2
  /\ at(slv.parity, -1) = bit_xor(out.pushes[1].coefficients, out.pushes[2].coefficients)
  /\ slv.equations.rank > out.rank_before

\* C23: equations change only on carry events.  A feed made while history is
\* not full, or whose value is (history(-31) + history(-3)) mod 2^31, returns
\* an empty result and leaves equations.rank and every row of the matrix as
\* they were; history gains the value (dropping its oldest once it is full) and
\* parity drops its oldest row and gains parity(-3) ^ parity(-31).
C23_OnlyCarryChangesEquations ==
  [][(/\ status = "feeding" /\ op' = "feed" /\ steps' = steps + 1
      /\ \/ ssize(slv.history) < TableSize
         \/ out'.value = u32_mod_2_31(u32_add(at(slv.history, -31), at(slv.history, -3))))
     => /\ out'.kind = "nullopt"
        /\ out'.pushes = <<>>
        /\ slv'.equations.rank = slv.equations.rank
        /\ \A i \in DOMAIN slv.equations.matrix :
             slv'.equations.matrix[i] = slv.equations.matrix[i]
        /\ Contents(slv'.history) =
             IF ssize(slv.history) < TableSize
               THEN Append(Contents(slv.history), out'.value)
               ELSE Append(Tail(Contents(slv.history)), out'.value)
        /\ Contents(slv'.parity) =
             Append(Tail(Contents(slv.parity)),
                    bit_xor(Contents(slv.parity)[TableSize - 2], Contents(slv.parity)[1]))
    ]_vars

\* A feed on a full history whose value was the expected one, made when the
\* matrix already held rows.
C23_Witness ==
  /\ op = "feed" /\ steps > TableSize
  /\ out.kind = "nullopt" /\ out.pushes = <<>>
  /\ slv.equations.rank > 0
  /\ ssize(slv.history) = TableSize

\* -------------------------------------------------------------- SpecRefeed
\* One solver fed the stream of one reference generator, the feeding going on
\* after feed has returned a generator: feed has no test of its own for a
\* solver that has already solved.
MaxRefeeds == 8        \* feeds made after the feed that first returned a generator

\* s.feed(gen()) on a solver that has returned a generator before.
FeedAgain ==
  /\ status = "solved"
  /\ harness.after < MaxRefeeds
  /\ LET a == advance(gen)
         f == feed(slv, a.value)
     IN  /\ gen' = a.gen
         /\ slv' = f.slv
         /\ gen2' = IF f.kind = "generator" THEN f.gen ELSE gen2
         /\ out' = [value |-> a.value, kind |-> f.kind, carry |-> f.carry, asserts |-> f.asserts,
                    pushes |-> f.pushes, rank_before |-> slv.equations.rank]
         /\ status' = IF f.kind = "hang" THEN "hang" ELSE "solved"
  /\ harness' = [harness EXCEPT !.after = @ + 1]
  /\ steps' = steps + 1
  /\ op' = "feed"
  /\ UNCHANGED <<queueVars, cmp>>

NextRefeed == Feed \/ FeedAgain

SpecRefeed == InitSolve /\ [][NextRefeed]_vars

\* C24: feed returns a generator only in a feed in which a push raises rank to
\* 31, so a solver returns a generator at most once: every feed made after the
\* one that returned a generator returns an empty result.
C24_GeneratorAtMostOnce ==
  op = "feed" =>
    /\ out.kind = "generator" =>
         /\ out.rank_before < FullRank
         /\ slv.equations.rank = FullRank
    /\ harness.after > 0 => out.kind = "nullopt"

\* A feed made after the solver had returned a generator was a carry event and
\* returned a generator again, rank being 31 before and after it.
C24_Witness ==
  /\ op = "feed" /\ harness.after > 0
  /\ out.kind = "generator"
  /\ out.rank_before = FullRank
  /\ Len(out.pushes) = 1 /\ ~out.pushes[1].pushed

\* C25: full-rank isolation.  When rank is 31, as it is at the call of
\* solve(), the rows 0 .. 30 are all non-zero, row i has its pivot bit i and no
\* other bit but possibly bit 31, so popcount(row) <= 2 holds for all 32 rows
\* as solve_parities asserts, and bit 31 of row i is the initial parity p_i.
C25_FullRankIsolation ==
  slv.equations.rank = FullRank =>
    /\ \A i \in 0 .. MatrixSize - 1 :
         LET row == slv.equations.matrix[i]
         IN  /\ row # {} => (i \in row /\ row \subseteq {i, 31})
             /\ popcount(row) <= 2
    /\ \A i \in 0 .. FullRank - 1 :
         /\ slv.equations.matrix[i] # {}
         /\ (31 \in slv.equations.matrix[i]) = (i \in harness.p)
    /\ solve_parities(slv).asserts

\* feed has pushed the 31st independent row and called solve().
C25_Witness ==
  /\ op = "feed" /\ out.kind = "generator"
  /\ out.rank_before = FullRank - 1
  /\ slv.equations.rank = FullRank
  /\ \E i \in 0 .. FullRank - 1 : slv.equations.matrix[i] = {i, 31}
  /\ \E i \in 0 .. FullRank - 1 : slv.equations.matrix[i] = {i}

====
